---- MODULE Spec2Model ----
(***************************************************************************)
(* The CodeHydra PyPI launcher (packages/pypi/src/codehydra/__init__.py):  *)
(* platform resolution, cache-path derivation, the existence check, the    *)
(* streamed download with its rename, zip extraction, the permission       *)
(* fixup and the process handoff, run by one or two launcher processes     *)
(* over a shared file system.                                              *)
(*                                                                         *)
(* Strings that the code takes apart (asset names, suffixes) are sequences *)
(* of tokens, e.g. "CodeHydra-darwin-x64.zip" is                           *)
(* <<"CodeHydra-darwin-x64", ".zip">>; a path is a sequence of such names. *)
(* A file is an inode (data, mode) reached through a directory entry; an   *)
(* open file keeps its inode whatever happens to the entry.  File data is  *)
(* a sequence of chunks, Hole standing for the zero bytes left by a write  *)
(* past the end of a truncated file.                                       *)
(***************************************************************************)
EXTENDS Integers, Sequences, FiniteSets, TLC

VARIABLES
    host,      \* [system, machine, environ, umask]: what platform.* and os.environ return
    dirs,      \* the directories that exist (set of paths)
    files,     \* directory entries of regular files: path -> inode id
    inodes,    \* inode id -> [data, mode]
    launches,  \* number of launcher invocations so far
    faulty,    \* TRUE once an injected network / disk / permission fault has occurred
    pc,        \* per process: position in main()
    ver,       \* per process: get_version("codehydra") of this invocation
    argv,      \* per process: sys.argv[1:]
    fd,        \* per process: inode open for writing (tmp file or zip member target), 0 = none
    off,       \* per process: chunks written so far through fd
    zfd,       \* per process: inode of the archive opened by ZipFile, 0 = none
    zi,        \* per process: index of the zip member being extracted
    log,       \* per process: externally visible effects of this invocation, in order
    url,       \* per process: URL requested by this invocation (<<>> if none)
    err,       \* per process: message of the exception that ended the invocation
    ran,       \* per process: what the handoff executed
    code       \* per process: exit status of the launcher (Windows spawn-and-wait)

fsvars == <<dirs, files, inodes>>
procvars == <<pc, ver, argv, fd, off, zfd, zi, log, url, err, ran, code>>
vars == <<host, dirs, files, inodes, launches, faulty, pc, ver, argv, fd, off, zfd, zi,
          log, url, err, ran, code>>

(***************************************************************************)
(* Bounds of the model.                                                    *)
(***************************************************************************)
BodyChunks == 2      \* chunks of 8192 bytes in a response body
MaxLaunches == 3     \* launcher invocations in one behaviour, one at a time
MaxRaces == 2        \* launcher invocations in one behaviour of concurrent launchers

Procs == {1, 2}
Versions == {"1.2.3", "2.0.0"}
Systems == {"Linux", "Darwin", "Windows", "FreeBSD"}
Machines == {"x86_64", "arm64", "AMD64"}
Argvs == {<<>>, <<"--version">>}
ExitCodes == {0, 3}

(***************************************************************************)
(* Sequence helpers.                                                       *)
(***************************************************************************)
Last(s) == s[Len(s)]
Front(s) == SubSeq(s, 1, Len(s) - 1)
IsPrefix(s, t) == Len(s) <= Len(t) /\ SubSeq(t, 1, Len(s)) = s
IsStrictPrefix(s, t) == IsPrefix(s, t) /\ Len(s) < Len(t)
Prefixes(s) == {SubSeq(s, 1, n) : n \in 1..Len(s)}
Has(s, x) == \E i \in 1..Len(s) : s[i] = x

(***************************************************************************)
(* Module constants.                                                       *)
(***************************************************************************)
REPO == <<"stefanhoelzl", "codehydra">>

\* mutant of ASSET_MAP: the Darwin/arm64 entry names the x64 archive
ASSET_MAP_Swapped ==
    (<<"Linux", "x86_64">>  :> <<"CodeHydra-linux-x64", ".AppImage">>) @@
    (<<"Darwin", "x86_64">> :> <<"CodeHydra-darwin-x64", ".zip">>) @@
    (<<"Darwin", "arm64">>  :> <<"CodeHydra-darwin-x64", ".zip">>) @@
    (<<"Windows", "AMD64">> :> <<"CodeHydra-win-portable-x64", ".zip">>)

ASSET_MAP ==
    (<<"Linux", "x86_64">>  :> <<"CodeHydra-linux-x64", ".AppImage">>) @@
    (<<"Darwin", "x86_64">> :> <<"CodeHydra-darwin-x64", ".zip">>) @@
    (<<"Darwin", "arm64">>  :> <<"CodeHydra-darwin-arm64", ".zip">>) @@
    (<<"Windows", "AMD64">> :> <<"CodeHydra-win-portable-x64", ".zip">>)

\* stat.S_IXUSR, stat.S_IXGRP, stat.S_IXOTH; a mode is the set of its bits
S_IXUSR == 64
S_IXGRP == 8
S_IXOTH == 1
\* 0o666 & ~umask for the umasks 0o022 and 0o077
CreateMode(umask) == {256, 128, 32, 16, 4, 2} \ umask

(***************************************************************************)
(* str and pathlib operations on token sequences.                          *)
(***************************************************************************)
\* str.replace(old, ""): every occurrence of the token goes, wherever it is
StrReplace(name, old) == SelectSeq(name, LAMBDA t : t # old)
\* str.endswith(suffix)
EndsWith(name, suffix) == Len(name) > 0 /\ Last(name) = suffix
\* PurePath.suffix: the last dot-component of the final name, if any
Suffix(path) == LET name == Last(path) IN IF Len(name) > 1 THEN <<Last(name)>> ELSE <<>>
\* PurePath.with_suffix(s): the final name's suffix replaced by s
WithSuffix(path, s) ==
    LET name == Last(path)
        stem == IF Len(name) > 1 THEN Front(name) ELSE name
    IN  Append(Front(path), stem \o s)

HomeDir == << <<"home">> >>
\* os.environ.get(var, default) as a path
EnvPath(h, var, default) == IF var \in DOMAIN h.environ THEN << <<h.environ[var]>> >> ELSE default

(***************************************************************************)
(* get_cache_dir, get_asset_name, get_binary_path: a result is             *)
(* [ok |-> TRUE, val |-> ...] or [ok |-> FALSE, val |-> the message].      *)
(***************************************************************************)
\* mutant of get_cache_dir: one directory for every version
get_cache_dir_unversioned(h, pkg_version) ==
    IF h.system = "Linux" THEN
        [ok |-> TRUE,
         val |-> EnvPath(h, "XDG_DATA_HOME", HomeDir \o << <<".local">>, <<"share">> >>)
                 \o << <<"codehydra">>, <<"releases">>, <<"current">> >>]
    ELSE IF h.system = "Darwin" THEN
        [ok |-> TRUE,
         val |-> HomeDir \o << <<"Library">>, <<"Application Support">>, <<"Codehydra">>,
                               <<"releases">>, <<"current">> >>]
    ELSE IF h.system = "Windows" THEN
        [ok |-> TRUE,
         val |-> EnvPath(h, "LOCALAPPDATA", HomeDir \o << <<"AppData">>, <<"Local">> >>)
                 \o << <<"Codehydra">>, <<"releases">>, <<"current">> >>]
    ELSE [ok |-> FALSE, val |-> <<"Unsupported platform: ", h.system>>]

get_cache_dir(h, pkg_version) ==
    IF h.system = "Linux" THEN
        [ok |-> TRUE,
         val |-> EnvPath(h, "XDG_DATA_HOME", HomeDir \o << <<".local">>, <<"share">> >>)
                 \o << <<"codehydra">>, <<"releases">>, <<pkg_version>> >>]
    ELSE IF h.system = "Darwin" THEN
        [ok |-> TRUE,
         val |-> HomeDir \o << <<"Library">>, <<"Application Support">>, <<"Codehydra">>,
                               <<"releases">>, <<pkg_version>> >>]
    ELSE IF h.system = "Windows" THEN
        [ok |-> TRUE,
         val |-> EnvPath(h, "LOCALAPPDATA", HomeDir \o << <<"AppData">>, <<"Local">> >>)
                 \o << <<"Codehydra">>, <<"releases">>, <<pkg_version>> >>]
    ELSE [ok |-> FALSE, val |-> <<"Unsupported platform: ", h.system>>]

\* mutant of get_asset_name: an unmatched key falls back to the Linux asset
get_asset_name_default(h) ==
    LET key == <<h.system, h.machine>> IN
    IF key \in DOMAIN ASSET_MAP
    THEN [ok |-> TRUE, val |-> ASSET_MAP[key]]
    ELSE [ok |-> TRUE, val |-> ASSET_MAP[<<"Linux", "x86_64">>]]

get_asset_name(h) ==
    LET key == <<h.system, h.machine>> IN
    IF key \in DOMAIN ASSET_MAP /\ ASSET_MAP[key] # <<>>
    THEN [ok |-> TRUE, val |-> ASSET_MAP[key]]
    ELSE [ok |-> FALSE, val |-> <<"Unsupported platform: ", key[1], "-", key[2]>>]

\* mutant of get_binary_path: the bundle directory keeps the archive's .zip suffix
get_binary_path_unstripped(h, cache_dir, asset_name) ==
    IF h.system = "Windows" THEN
        cache_dir \o << <<"CodeHydra-win-portable-x64">>, <<"CodeHydra", ".exe">> >>
    ELSE IF h.system = "Darwin" THEN
        cache_dir \o << asset_name, <<"CodeHydra", ".app">>, <<"Contents">>, <<"MacOS">>,
                        <<"CodeHydra">> >>
    ELSE Append(cache_dir, asset_name)

get_binary_path(h, cache_dir, asset_name) ==
    IF h.system = "Windows" THEN
        cache_dir \o << <<"CodeHydra-win-portable-x64">>, <<"CodeHydra", ".exe">> >>
    ELSE IF h.system = "Darwin" THEN
        LET app_name == StrReplace(asset_name, ".zip") IN
        cache_dir \o << app_name, <<"CodeHydra", ".app">>, <<"Contents">>, <<"MacOS">>,
                        <<"CodeHydra">> >>
    ELSE Append(cache_dir, asset_name)

(***************************************************************************)
(* What main() binds at lines 71-74 and 80-81, and download() at line 60.  *)
(***************************************************************************)
CacheDir(p) == get_cache_dir(host, ver[p]).val
AssetName == get_asset_name(host).val
BinaryPath(p) == get_binary_path(host, CacheDir(p), AssetName)
DownloadPath(p) == Append(CacheDir(p), AssetName)
DownloadUrl(p) == <<"https://github.com">> \o REPO \o <<"releases", "download", "v", ver[p]>>
                  \o AssetName
\* mutant of TmpPath: the download is written to dest_path itself
TmpPath_InPlace(dest_path) == dest_path
TmpPath(dest_path) == WithSuffix(dest_path, Suffix(dest_path) \o <<".tmp">>)

(***************************************************************************)
(* The remote release and the archive it holds.                            *)
(***************************************************************************)
Hole == <<"", 0>>
\* the response body of a version's asset, as the chunks response.read(8192) returns
Body(v) == [i \in 1..BodyChunks |-> <<v, i>>]
\* members of a zip asset, relative to the extraction directory: the executable first,
\* then a resource file beside it
ZipMembers(h) ==
    LET rel == get_binary_path(h, <<>>, get_asset_name(h).val)
    IN  << rel, Append(Front(rel), <<"resources", ".pak">>) >>
MemberData(v, i) == << <<v, BodyChunks + i>> >>

(***************************************************************************)
(* File system primitives.                                                 *)
(***************************************************************************)
\* mutant of Exists: the cache is never found
Exists_Never(path) == FALSE
Exists(path) == path \in DOMAIN files \/ path \in dirs
FreshId == CHOOSE n \in 1..(Cardinality(DOMAIN inodes) + 1) :
               n \notin DOMAIN inodes /\ \A m \in 1..(n - 1) : m \in DOMAIN inodes
\* an inode lives while a directory entry or an open file refers to it
Collect(fl, ino, fds, zfds) ==
    LET live == {fl[q] : q \in DOMAIN fl} \cup {fds[q] : q \in Procs} \cup {zfds[q] : q \in Procs}
    IN  [i \in (DOMAIN ino) \cap live |-> ino[i]]
IsOpen(id) == \E q \in Procs : fd[q] = id \/ zfd[q] = id
\* open(path, "wb"): the inode the path names, truncated, or a new one
OpenWriteId(path) == IF path \in DOMAIN files THEN files[path] ELSE FreshId
OpenWriteFiles(path) == IF path \in DOMAIN files THEN files ELSE files @@ (path :> FreshId)
\* mutant of OpenWriteInodes: an existing file keeps its content
OpenWriteInodes_NoTrunc(path) ==
    IF path \in DOMAIN files
    THEN inodes
    ELSE inodes @@ (FreshId :> [data |-> <<>>, mode |-> CreateMode(host.umask)])
OpenWriteInodes(path) ==
    IF path \in DOMAIN files
    THEN [inodes EXCEPT ![files[path]].data = <<>>]
    ELSE inodes @@ (FreshId :> [data |-> <<>>, mode |-> CreateMode(host.umask)])
\* write(2) of one chunk at offset k (counted in chunks) of a file holding data
WriteAt(data, k, c) ==
    LET padded == IF Len(data) < k THEN data \o [i \in 1..(k - Len(data)) |-> Hole] ELSE data
    IN  IF Len(padded) = k THEN Append(padded, c) ELSE [padded EXCEPT ![k + 1] = c]
\* os.rename: on Windows it refuses an existing target and a source someone holds open
RenameAllowed(src, dst) ==
    /\ src \in DOMAIN files
    /\ host.system = "Windows" => (dst \notin DOMAIN files /\ ~IsOpen(files[src]))
RenameFiles(src, dst) ==
    [q \in ((DOMAIN files) \ {src}) \cup {dst} |-> IF q = dst THEN files[src] ELSE files[q]]
\* os.unlink: on Windows it refuses a file someone holds open
UnlinkAllowed(path, closing) ==
    /\ path \in DOMAIN files
    /\ host.system = "Windows" =>
           ~\E q \in Procs \ {closing} : fd[q] = files[path] \/ zfd[q] = files[path]
\* mutant of UnlinkFiles: the archive is kept
UnlinkFiles_Keep(path) == files
\* mutant of UnlinkFiles: everything beside the archive goes with it
UnlinkFiles_Tree(path) == [q \in {r \in DOMAIN files : ~IsPrefix(Front(path), r)} |-> files[q]]
UnlinkFiles(path) == [q \in (DOMAIN files) \ {path} |-> files[q]]
\* Path.mkdir(parents=True, exist_ok=True) and os.makedirs
MakeDirs(path) == dirs \cup Prefixes(path)

(***************************************************************************)
(* Initial state: a host, an empty cache, no launcher running.             *)
(***************************************************************************)
NoEnviron == [x \in {} |-> ""]
\* the two kinds of host tried: nothing overridden and umask 0o022, or both base
\* directories overridden and umask 0o077
HostProfiles ==
    {[environ |-> NoEnviron, umask |-> {16, 2}],
     [environ |-> ("XDG_DATA_HOME" :> "xdg") @@ ("LOCALAPPDATA" :> "appdata"),
      umask |-> {32, 16, 8, 4, 2, 1}]}
NoRan == [path |-> <<>>, args |-> <<>>, data |-> <<>>, mode |-> {}, returncode |-> -1]
Running == {"resolve", "check", "mkdir", "urlopen", "open_tmp", "read", "write", "rename",
            "zip_open", "member_open", "member_write", "unlink", "chmod", "done",
            "handoff", "waiting"}
Ended == {"idle", "failed", "replaced", "exited"}

Init ==
    /\ host \in {[system |-> s, machine |-> m, environ |-> h.environ, umask |-> h.umask] :
                    s \in Systems, m \in Machines, h \in HostProfiles}
    /\ dirs = {}
    /\ files = [q \in {} |-> 0]
    /\ inodes = [i \in {} |-> 0]
    /\ launches = 0
    /\ faulty = FALSE
    /\ pc = [p \in Procs |-> "idle"]
    /\ ver = [p \in Procs |-> "1.2.3"]
    /\ argv = [p \in Procs |-> <<>>]
    /\ fd = [p \in Procs |-> 0]
    /\ off = [p \in Procs |-> 0]
    /\ zfd = [p \in Procs |-> 0]
    /\ zi = [p \in Procs |-> 0]
    /\ log = [p \in Procs |-> <<>>]
    /\ url = [p \in Procs |-> <<>>]
    /\ err = [p \in Procs |-> <<>>]
    /\ ran = [p \in Procs |-> NoRan]
    /\ code = [p \in Procs |-> -1]

(***************************************************************************)
(* Steps of one launcher process.                                          *)
(***************************************************************************)
\* mutant of Raise: the exception is swallowed and main goes on to the handoff
Raise_Swallowed(p, msg) ==
    /\ pc' = [pc EXCEPT ![p] = IF pc[p] = "handoff" THEN "failed" ELSE "handoff"]
    /\ err' = [err EXCEPT ![p] = msg]
    /\ code' = [code EXCEPT ![p] = IF pc[p] = "handoff" THEN 1 ELSE @]
    /\ fd' = [fd EXCEPT ![p] = 0]
    /\ zfd' = [zfd EXCEPT ![p] = 0]
    /\ inodes' = Collect(files, inodes, fd', zfd')

\* an uncaught exception: open files are closed by their with-blocks, the interpreter
\* exits with status 1
Raise(p, msg) ==
    /\ pc' = [pc EXCEPT ![p] = "failed"]
    /\ err' = [err EXCEPT ![p] = msg]
    /\ code' = [code EXCEPT ![p] = 1]
    /\ fd' = [fd EXCEPT ![p] = 0]
    /\ zfd' = [zfd EXCEPT ![p] = 0]
    /\ inodes' = Collect(files, inodes, fd', zfd')

\* a launcher is invoked with arguments a, the installed package being of version v
Launch(p, v, a, max) ==
    /\ pc[p] \in Ended
    /\ launches < max
    /\ launches' = launches + 1
    /\ ver' = [ver EXCEPT ![p] = v]
    /\ argv' = [argv EXCEPT ![p] = a]
    /\ pc' = [pc EXCEPT ![p] = "resolve"]
    /\ off' = [off EXCEPT ![p] = 0]
    /\ zi' = [zi EXCEPT ![p] = 0]
    /\ log' = [log EXCEPT ![p] = <<>>]
    /\ url' = [url EXCEPT ![p] = <<>>]
    /\ err' = [err EXCEPT ![p] = <<>>]
    /\ ran' = [ran EXCEPT ![p] = NoRan]
    /\ code' = [code EXCEPT ![p] = -1]
    /\ UNCHANGED <<host, dirs, files, inodes, faulty, fd, zfd>>

\* any version, any arguments
Start(p) == \E v \in Versions, a \in Argvs : Launch(p, v, a, MaxLaunches)
\* the launchers of one installed package: the same version for all of them
StartSame(p) == Launch(p, "1.2.3", <<"--version">>, MaxRaces)

\* main, lines 71-74
Resolve(p) ==
    /\ pc[p] = "resolve"
    /\ IF ~get_cache_dir(host, ver[p]).ok
       THEN Raise(p, get_cache_dir(host, ver[p]).val)
       ELSE IF ~get_asset_name(host).ok
       THEN Raise(p, get_asset_name(host).val)
       ELSE /\ pc' = [pc EXCEPT ![p] = "check"]
            /\ UNCHANGED <<err, code, fd, zfd, inodes>>
    /\ UNCHANGED <<host, dirs, files, launches, faulty, ver, argv, off, zi, log, url, ran>>

\* main, lines 76-77: the existence check, and the first message
Check(p) ==
    /\ pc[p] = "check"
    /\ IF Exists(BinaryPath(p))
       THEN /\ pc' = [pc EXCEPT ![p] = "handoff"]
            /\ UNCHANGED log
       ELSE /\ pc' = [pc EXCEPT ![p] = "mkdir"]
            /\ log' = [log EXCEPT ![p] = Append(@, "print:Downloading")]
    /\ UNCHANGED <<host, dirs, files, inodes, launches, faulty, ver, argv, fd, off, zfd, zi,
                   url, err, ran, code>>

\* main, line 78
Mkdir(p) ==
    /\ pc[p] = "mkdir"
    /\ dirs' = MakeDirs(CacheDir(p))
    /\ pc' = [pc EXCEPT ![p] = "urlopen"]
    /\ log' = [log EXCEPT ![p] = Append(@, "mkdir")]
    /\ UNCHANGED <<host, files, inodes, launches, faulty, ver, argv, fd, off, zfd, zi,
                   url, err, ran, code>>

\* download, lines 61-62: the request is sent and answered with a success status
UrlOpen(p) ==
    /\ pc[p] = "urlopen"
    /\ url' = [url EXCEPT ![p] = DownloadUrl(p)]
    /\ log' = [log EXCEPT ![p] = Append(@, "request")]
    /\ pc' = [pc EXCEPT ![p] = "open_tmp"]
    /\ UNCHANGED <<host, dirs, files, inodes, launches, faulty, ver, argv, fd, off, zfd, zi,
                   err, ran, code>>

\* download, line 63: open(tmp_path, "wb")
OpenTmp(p) ==
    LET tmp == TmpPath(DownloadPath(p)) IN
    /\ pc[p] = "open_tmp"
    /\ fd' = [fd EXCEPT ![p] = OpenWriteId(tmp)]
    /\ files' = OpenWriteFiles(tmp)
    /\ inodes' = OpenWriteInodes(tmp)
    /\ off' = [off EXCEPT ![p] = 0]
    /\ log' = [log EXCEPT ![p] = Append(@, "open")]
    /\ pc' = [pc EXCEPT ![p] = "read"]
    /\ UNCHANGED <<host, dirs, launches, faulty, ver, argv, zfd, zi, url, err, ran, code>>

\* mutant of Read: an empty chunk also ends the loop when body is left to read
Read_StopsEarly(p) ==
    /\ pc[p] = "read"
    /\ \/ /\ off[p] < Len(Body(ver[p]))
          /\ pc' = [pc EXCEPT ![p] = "write"]
          /\ UNCHANGED <<fd, inodes>>
       \/ /\ pc' = [pc EXCEPT ![p] = "rename"]
          /\ fd' = [fd EXCEPT ![p] = 0]
          /\ inodes' = Collect(files, inodes, fd', zfd)
    /\ UNCHANGED <<host, dirs, files, launches, faulty, ver, argv, off, zfd, zi, log, url,
                   err, ran, code>>

\* download, line 64: response.read(8192); an empty chunk ends the loop and both
\* with-blocks, closing the file
Read(p) ==
    /\ pc[p] = "read"
    /\ IF off[p] < Len(Body(ver[p]))
       THEN /\ pc' = [pc EXCEPT ![p] = "write"]
            /\ UNCHANGED <<fd, inodes>>
       ELSE /\ pc' = [pc EXCEPT ![p] = "rename"]
            /\ fd' = [fd EXCEPT ![p] = 0]
            /\ inodes' = Collect(files, inodes, fd', zfd)
    /\ UNCHANGED <<host, dirs, files, launches, faulty, ver, argv, off, zfd, zi, log, url,
                   err, ran, code>>

\* download, line 65: f.write(chunk)
Write(p) ==
    /\ pc[p] = "write"
    /\ inodes' = [inodes EXCEPT ![fd[p]].data = WriteAt(@, off[p], Body(ver[p])[off[p] + 1])]
    /\ off' = [off EXCEPT ![p] = @ + 1]
    /\ log' = [log EXCEPT ![p] = Append(@, "write")]
    /\ pc' = [pc EXCEPT ![p] = "read"]
    /\ UNCHANGED <<host, dirs, files, launches, faulty, ver, argv, fd, zfd, zi, url, err,
                   ran, code>>

\* where main continues after download returns (lines 84 and 90)
AfterExtract == IF host.system # "Windows" THEN "chmod" ELSE "done"
\* mutant of AfterDownload: a zip asset is not extracted
AfterDownload_NoExtract == AfterExtract
AfterDownload == IF EndsWith(AssetName, ".zip") THEN "zip_open" ELSE AfterExtract

\* download, line 66: tmp_path.rename(dest_path)
Rename(p) ==
    LET dest == DownloadPath(p)
        tmp == TmpPath(dest)
    IN
    /\ pc[p] = "rename"
    /\ IF RenameAllowed(tmp, dest)
       THEN /\ files' = RenameFiles(tmp, dest)
            /\ inodes' = Collect(files', inodes, fd, zfd)
            /\ log' = [log EXCEPT ![p] = Append(@, "rename")]
            /\ pc' = [pc EXCEPT ![p] = AfterDownload]
            /\ UNCHANGED <<err, code, fd, zfd>>
       ELSE /\ Raise(p, <<"OSError: rename">>)
            /\ UNCHANGED <<files, log>>
    /\ UNCHANGED <<host, dirs, launches, faulty, ver, argv, off, zi, url, ran>>

\* main, lines 85-86: the message, then ZipFile(download_path, "r"), which reads the
\* central directory at the end of the file and so needs the whole archive
ZipOpen(p) ==
    LET dest == DownloadPath(p) IN
    /\ pc[p] = "zip_open"
    /\ log' = [log EXCEPT ![p] = Append(@, "print:Extracting")]
    /\ IF dest \notin DOMAIN files
       THEN /\ Raise(p, <<"FileNotFoundError: open archive">>)
            /\ UNCHANGED zi
       ELSE IF inodes[files[dest]].data # Body(ver[p])
       THEN /\ Raise(p, <<"BadZipFile">>)
            /\ UNCHANGED zi
       ELSE /\ zfd' = [zfd EXCEPT ![p] = files[dest]]
            /\ zi' = [zi EXCEPT ![p] = 1]
            /\ pc' = [pc EXCEPT ![p] = "member_open"]
            /\ UNCHANGED <<err, code, fd, inodes>>
    /\ UNCHANGED <<host, dirs, files, launches, faulty, ver, argv, off, url, ran>>

\* zf.extractall (line 87), one member: its directories are made and its target is
\* opened with open(targetpath, "wb")
MemberOpen(p) ==
    LET target == CacheDir(p) \o ZipMembers(host)[zi[p]] IN
    /\ pc[p] = "member_open"
    /\ dirs' = MakeDirs(Front(target))
    /\ fd' = [fd EXCEPT ![p] = OpenWriteId(target)]
    /\ files' = OpenWriteFiles(target)
    /\ inodes' = OpenWriteInodes(target)
    /\ pc' = [pc EXCEPT ![p] = "member_write"]
    /\ UNCHANGED <<host, launches, faulty, ver, argv, off, zfd, zi, log, url, err, ran, code>>

\* zf.extractall (line 87), one member: its data is copied and the target closed; after
\* the last member the with-block closes the archive
MemberWrite(p) ==
    /\ pc[p] = "member_write"
    /\ fd' = [fd EXCEPT ![p] = 0]
    /\ inodes' = Collect(files,
                         [inodes EXCEPT ![fd[p]].data = WriteAt(@, 0, MemberData(ver[p], zi[p])[1])],
                         fd', zfd)
    /\ log' = [log EXCEPT ![p] = Append(@, "extract")]
    /\ IF zi[p] < Len(ZipMembers(host))
       THEN /\ zi' = [zi EXCEPT ![p] = @ + 1]
            /\ pc' = [pc EXCEPT ![p] = "member_open"]
       ELSE /\ pc' = [pc EXCEPT ![p] = "unlink"]
            /\ UNCHANGED zi
    /\ UNCHANGED <<host, dirs, files, launches, faulty, ver, argv, off, zfd, url, err, ran, code>>

\* main, line 88, after the with-block has closed the archive: download_path.unlink()
Unlink(p) ==
    LET dest == DownloadPath(p) IN
    /\ pc[p] = "unlink"
    /\ IF UnlinkAllowed(dest, p)
       THEN /\ files' = UnlinkFiles(dest)
            /\ zfd' = [zfd EXCEPT ![p] = 0]
            /\ inodes' = Collect(files', inodes, fd, zfd')
            /\ log' = [log EXCEPT ![p] = Append(@, "unlink")]
            /\ pc' = [pc EXCEPT ![p] = AfterExtract]
            /\ UNCHANGED <<err, code, fd>>
       ELSE /\ Raise(p, <<"OSError: unlink">>)
            /\ UNCHANGED <<files, log>>
    /\ UNCHANGED <<host, dirs, launches, faulty, ver, argv, off, zi, url, ran>>

\* mutant of ChmodMode: only the owner's execute bit is added
ChmodMode_OwnerOnly(st_mode) == st_mode \cup {S_IXUSR}
\* main, line 91: binary_path.chmod(st_mode | S_IXUSR | S_IXGRP | S_IXOTH)
ChmodMode(st_mode) == st_mode \cup {S_IXUSR, S_IXGRP, S_IXOTH}

Chmod(p) ==
    LET bp == BinaryPath(p) IN
    /\ pc[p] = "chmod"
    /\ IF bp \in DOMAIN files
       THEN /\ inodes' = [inodes EXCEPT ![files[bp]].mode = ChmodMode(@)]
            /\ log' = [log EXCEPT ![p] = Append(@, "chmod")]
            /\ pc' = [pc EXCEPT ![p] = "done"]
            /\ UNCHANGED <<err, code, fd, zfd>>
       ELSE /\ Raise(p, <<"FileNotFoundError: stat">>)
            /\ UNCHANGED log
    /\ UNCHANGED <<host, dirs, files, launches, faulty, ver, argv, off, zi, url, ran>>

\* main, line 93
Done(p) ==
    /\ pc[p] = "done"
    /\ log' = [log EXCEPT ![p] = Append(@, "print:Done")]
    /\ pc' = [pc EXCEPT ![p] = "handoff"]
    /\ UNCHANGED <<host, dirs, files, inodes, launches, faulty, ver, argv, fd, off, zfd, zi,
                   url, err, ran, code>>

\* the bytes the executable of a version holds once installed
BinaryData(p) == IF EndsWith(AssetName, ".zip") THEN MemberData(ver[p], 1) ELSE Body(ver[p])
Snapshot(p) ==
    LET bp == BinaryPath(p) IN
    [path |-> bp, args |-> argv[p], data |-> inodes[files[bp]].data,
     mode |-> inodes[files[bp]].mode, returncode |-> -1]
\* what execv / CreateProcess need of the file: it exists, is not empty, is not held
\* open for writing (ETXTBSY, sharing violation) and, off Windows, is executable
Launchable(p) ==
    LET bp == BinaryPath(p) IN
    /\ bp \in DOMAIN files
    /\ inodes[files[bp]].data # <<>>
    /\ \A q \in Procs : fd[q] # files[bp]
    /\ host.system # "Windows" => S_IXUSR \in inodes[files[bp]].mode

\* main, lines 95-98: subprocess.run on Windows, os.execv elsewhere.  A file that is
\* present and executable but does not hold the whole program may or may not load.
Handoff(p) ==
    /\ pc[p] = "handoff"
    /\ log' = [log EXCEPT ![p] = Append(@, "handoff")]
    /\ \/ /\ Launchable(p)
          /\ ran' = [ran EXCEPT ![p] = Snapshot(p)]
          /\ pc' = [pc EXCEPT ![p] = IF host.system = "Windows" THEN "waiting" ELSE "replaced"]
          /\ UNCHANGED <<err, code, fd, zfd, inodes>>
       \/ /\ IF Launchable(p) THEN inodes[files[BinaryPath(p)]].data # BinaryData(p) ELSE TRUE
          /\ Raise(p, <<"OSError: exec">>)
          /\ UNCHANGED ran
    /\ UNCHANGED <<host, dirs, files, launches, faulty, ver, argv, off, zi, url>>

\* mutant of sys_exit: the launcher always reports success
sys_exit_zero(returncode) == 0
\* sys.exit(n) for an ordinary exit code n: the interpreter ends with status n
sys_exit(returncode) == returncode

\* main, line 96: the child finishes with some return code and sys.exit passes it on
ChildExit(p) ==
    /\ pc[p] = "waiting"
    /\ \E c \in ExitCodes :
          /\ ran' = [ran EXCEPT ![p].returncode = c]
          /\ code' = [code EXCEPT ![p] = sys_exit(c)]
    /\ pc' = [pc EXCEPT ![p] = "exited"]
    /\ UNCHANGED <<host, dirs, files, inodes, launches, faulty, ver, argv, fd, off, zfd, zi,
                   log, url, err>>

\* a network, disk or permission error raised by the step the process is at: nothing of
\* the step takes effect except what precedes the failing call
FaultPoints == {"mkdir", "urlopen", "open_tmp", "read", "write", "rename", "zip_open",
                "member_open", "member_write", "unlink", "chmod"}
\* mutant of Fault: a failing download removes its temporary file
Fault_Cleanup(p) ==
    LET tmp == TmpPath(DownloadPath(p)) IN
    /\ pc[p] \in FaultPoints
    /\ faulty' = TRUE
    /\ pc' = [pc EXCEPT ![p] = "failed"]
    /\ err' = [err EXCEPT ![p] = <<"fault", pc[p]>>]
    /\ code' = [code EXCEPT ![p] = 1]
    /\ fd' = [fd EXCEPT ![p] = 0]
    /\ zfd' = [zfd EXCEPT ![p] = 0]
    /\ files' = IF pc[p] \in {"read", "write", "rename"} /\ tmp \in DOMAIN files
                THEN UnlinkFiles(tmp) ELSE files
    /\ inodes' = Collect(files', inodes, fd', zfd')
    /\ log' = [log EXCEPT ![p] = IF pc[p] = "urlopen" THEN Append(@, "request")
                                 ELSE IF pc[p] = "zip_open" THEN Append(@, "print:Extracting")
                                 ELSE @]
    /\ url' = [url EXCEPT ![p] = IF pc[p] = "urlopen" THEN DownloadUrl(p) ELSE @]
    /\ UNCHANGED <<host, dirs, launches, ver, argv, off, zi, ran>>

Fault(p) ==
    /\ pc[p] \in FaultPoints
    /\ faulty' = TRUE
    /\ Raise(p, <<"fault", pc[p]>>)
    /\ log' = [log EXCEPT ![p] = IF pc[p] = "urlopen" THEN Append(@, "request")
                                 ELSE IF pc[p] = "zip_open" THEN Append(@, "print:Extracting")
                                 ELSE @]
    /\ url' = [url EXCEPT ![p] = IF pc[p] = "urlopen" THEN DownloadUrl(p) ELSE @]
    /\ UNCHANGED <<host, dirs, files, launches, ver, argv, off, zi, ran>>

Step(p) ==
    \/ Resolve(p)
    \/ Check(p)
    \/ Mkdir(p)
    \/ UrlOpen(p)
    \/ OpenTmp(p)
    \/ Read(p)
    \/ Write(p)
    \/ Rename(p)
    \/ ZipOpen(p)
    \/ MemberOpen(p)
    \/ MemberWrite(p)
    \/ Unlink(p)
    \/ Chmod(p)
    \/ Done(p)
    \/ Handoff(p)
    \/ ChildExit(p)
    \/ Fault(p)

\* one launcher at a time: every invocation ends before the next begins
Next == \E p \in {1} : Start(p) \/ Step(p)
Spec == Init /\ [][Next]_vars

\* one launcher at a time, each running to its end with no fault, a hung network
\* or a stuck disk counting as a fault
SpecLive == Spec /\ WF_vars(Next)

\* two launchers, interleaved step by step
NextConc == \E p \in Procs : StartSame(p) \/ Step(p)
SpecConc == Init /\ [][NextConc]_vars

\* two launchers of one package used in turn: what the first left behind, and how it
\* ended, is there when the second runs
StartAfter(p) == (\A q \in Procs \ {p} : pc[q] \in Ended) /\ StartSame(p)
NextRetry == \E p \in Procs : StartAfter(p) \/ Step(p)
SpecRetry == Init /\ [][NextRetry]_vars

(***************************************************************************)
(* Vocabulary of the properties.                                           *)
(***************************************************************************)
SupportedKeys == {<<"Linux", "x86_64">>, <<"Darwin", "x86_64">>, <<"Darwin", "arm64">>,
                  <<"Windows", "AMD64">>}
Supported == <<host.system, host.machine>> \in SupportedKeys
\* cacheDir/assetName and its temporary sibling for version v
DestOf(v) == Append(get_cache_dir(host, v).val, get_asset_name(host).val)
TmpOf(v) == Append(get_cache_dir(host, v).val, get_asset_name(host).val \o <<".tmp">>)
DataAt(path) == inodes[files[path]].data
ModeAt(path) == inodes[files[path]].mode
\* the invocation of p ended with an injected error at one of these steps
FailedAt(p, steps) == pc[p] = "failed" /\ Len(err[p]) = 2 /\ err[p][1] = "fault" /\ err[p][2] \in steps

(***************************************************************************)
(* C1. With launchers run one at a time and downloads that may fail at any *)
(* step, the destination path cacheDir/assetName of every version either   *)
(* does not exist or holds the complete response body, in every reachable  *)
(* state.                                                                  *)
(***************************************************************************)
C1_DestAbsentOrComplete ==
    Supported =>
        \A v \in Versions : DestOf(v) \in DOMAIN files => DataAt(DestOf(v)) = Body(v)

\* a download was interrupted after its first chunk: the temporary file holds a strict
\* prefix of the body and the destination does not exist
C1_Witness ==
    /\ Supported
    /\ FailedAt(1, {"read", "write"})
    /\ TmpOf(ver[1]) \in DOMAIN files
    /\ DataAt(TmpOf(ver[1])) # <<>>
    /\ IsStrictPrefix(DataAt(TmpOf(ver[1])), Body(ver[1]))
    /\ DestOf(ver[1]) \notin DOMAIN files

(***************************************************************************)
(* C2. With two launchers installing the same version concurrently, the    *)
(* destination path, whenever it exists, holds a complete download.        *)
(***************************************************************************)
C2_ConcurrentDestComplete ==
    Supported =>
        \A p \in Procs :
            (pc[p] # "idle" /\ DownloadPath(p) \in DOMAIN files)
                => DataAt(DownloadPath(p)) = Body(ver[p])

(***************************************************************************)
(* C3. A run installs if and only if binaryPath does not exist at the      *)
(* existence check.  When it exists the run sends no request, changes      *)
(* nothing in the file system, prints nothing, and hands off to that same  *)
(* existing path.                                                          *)
(***************************************************************************)
C3_CheckStep(p) ==
    (pc[p] = "check" /\ pc'[p] # "check") =>
        IF BinaryPath(p) \in DOMAIN files \/ BinaryPath(p) \in dirs
        THEN pc'[p] = "handoff" /\ log'[p] = <<>> /\ url'[p] = <<>>
             /\ UNCHANGED <<dirs, files, inodes>>
        ELSE pc'[p] = "mkdir" /\ log'[p] = <<"print:Downloading">>
C3_FastHandoffStep(p) ==
    (pc[p] = "handoff" /\ log[p] = <<>> /\ pc'[p] # "handoff") =>
        /\ UNCHANGED <<dirs, files>>
        /\ \A i \in DOMAIN inodes : i \in DOMAIN inodes' /\ inodes'[i] = inodes[i]
        /\ log'[p] = <<"handoff">> /\ url'[p] = <<>>
        /\ pc'[p] \in {"replaced", "waiting"} =>
               ran'[p].path = BinaryPath(p) /\ ran'[p].path \in DOMAIN files
C3_FastPathIffPresent ==
    /\ [](\A p \in Procs :
            (pc[p] \in Running \ {"resolve", "check"} /\ log[p] # <<>> /\ log[p] # <<"handoff">>)
                => log[p][1] = "print:Downloading")
    /\ [][\A p \in Procs : C3_CheckStep(p) /\ C3_FastHandoffStep(p)]_vars

\* a second run found the binary installed by an earlier one and handed off to it
C3_Witness ==
    /\ launches >= 2
    /\ pc[1] \in {"replaced", "waiting"}
    /\ log[1] = <<"handoff">>
    /\ ran[1].path = BinaryPath(1)
    /\ ran[1].data = BinaryData(1)

(***************************************************************************)
(* C4. The handoff happens at most once in a run, is the run's last        *)
(* action, and happens only after every install step of the run completed: *)
(* a run in which a step failed never reaches it.                          *)
(***************************************************************************)
Repeat(x, n) == [i \in 1..n |-> x]
\* everything an installing run does before the handoff, in order
FullInstallLog ==
    <<"print:Downloading", "mkdir", "request", "open">> \o Repeat("write", BodyChunks)
    \o <<"rename">>
    \o (IF host.system \in {"Darwin", "Windows"}
        THEN <<"print:Extracting">> \o Repeat("extract", Len(ZipMembers(host))) \o <<"unlink">>
        ELSE <<>>)
    \o (IF host.system # "Windows" THEN <<"chmod">> ELSE <<>>)
    \o <<"print:Done">>
C4_HandoffOnceLastAfterSuccess ==
    /\ [](\A p \in Procs :
            /\ \A i \in 1..Len(log[p]) : log[p][i] = "handoff" => i = Len(log[p])
            /\ Has(log[p], "handoff") =>
                   (Front(log[p]) = <<>> \/ Front(log[p]) = FullInstallLog)
            /\ FailedAt(p, FaultPoints) => ~Has(log[p], "handoff")
            /\ pc[p] \in {"waiting", "replaced", "exited"} => Has(log[p], "handoff"))
    /\ [][\A p \in Procs :
            (Has(log[p], "handoff") /\ pc'[p] # "resolve") =>
                (log'[p] = log[p] /\ url'[p] = url[p] /\ UNCHANGED <<dirs, files>>)]_vars

\* a run installed the version and then handed off
C4_Witness ==
    /\ pc[1] \in {"replaced", "exited"}
    /\ Len(log[1]) > 1
    /\ Last(log[1]) = "handoff"

(***************************************************************************)
(* C5. After an invocation failed at an install step, the next invocation  *)
(* for the same version does not take the fast path.  Since the existence  *)
(* of binaryPath alone decides that (C3), this says: when a run has failed *)
(* at an install step, binaryPath of its version does not exist.           *)
(***************************************************************************)
C5_FailedInstallLeavesNoBinary ==
    \A p \in Procs : FailedAt(p, FaultPoints) => ~Exists(BinaryPath(p))

(***************************************************************************)
(* C6. On every (OS, architecture) pair outside the four supported keys,   *)
(* also when only the architecture is unsupported, the launcher fails with *)
(* an unsupported-platform error before any file system write or network   *)
(* request: no directory, no file, no request, no message, no handoff.     *)
(***************************************************************************)
C6_UnsupportedDoesNothing ==
    <<host.system, host.machine>> \notin SupportedKeys =>
        /\ dirs = {} /\ DOMAIN files = {} /\ DOMAIN inodes = {}
        /\ \A p \in Procs :
              /\ pc[p] \in {"idle", "resolve", "failed"}
              /\ log[p] = <<>> /\ url[p] = <<>> /\ ran[p] = NoRan
              /\ pc[p] = "failed" => (err[p][1] = "Unsupported platform: " /\ code[p] = 1)

\* a launcher failed on Linux/arm64: a supported OS with an unsupported architecture
C6_Witness ==
    /\ host.system = "Linux" /\ host.machine = "arm64"
    /\ pc[1] = "failed"
    /\ err[1][1] = "Unsupported platform: "

(***************************************************************************)
(* C7. When a download fails (connection error, non-success status, write  *)
(* error), the failure is fatal, the temporary file exists at the temp     *)
(* path after the failure, and destPath is not created.                    *)
(***************************************************************************)
DownloadSteps == {"urlopen", "open_tmp", "read", "write", "rename"}
C7_FailedDownloadLeavesTmp ==
    \A p \in Procs :
        FailedAt(p, DownloadSteps) =>
            /\ code[p] = 1
            /\ TmpOf(ver[p]) \in DOMAIN files
            /\ ~Has(log[p], "rename")

\* C7 as amended: the failure is fatal and destPath is not created; the temporary file
\* is left behind when the failure comes after it was opened (a read or write error, or
\* a failing rename), while a failure of the request itself or of opening the file
\* leaves the temp path as it was, so after a first attempt no temporary file exists;
\* and nothing but the rename to destPath ever removes a temporary file.
C7_FailedDownloadAmended ==
    /\ [](\A p \in Procs :
            FailedAt(p, DownloadSteps) =>
                /\ code[p] = 1
                /\ ~Has(log[p], "rename") /\ ~Has(log[p], "handoff")
                /\ err[p][2] \in {"read", "write", "rename"} => TmpOf(ver[p]) \in DOMAIN files
                /\ (err[p][2] \in {"urlopen", "open_tmp"} /\ launches = 1) =>
                       (DOMAIN files = {} /\ DOMAIN inodes = {}))
    /\ [](\A p \in Procs :
            (pc[p] = "failed" /\ err[p] = <<"OSError: rename">>) =>
                (code[p] = 1 /\ ~Has(log[p], "rename") /\ TmpOf(ver[p]) \in DOMAIN files))
    /\ [][\A v \in Versions :
            (Supported /\ TmpOf(v) \in DOMAIN files /\ TmpOf(v) \notin DOMAIN files') =>
                (DestOf(v) \in DOMAIN files' /\ files'[DestOf(v)] = files[TmpOf(v)])]_vars

\* a download failed at a write after the first chunk: the temporary file is there
C7_Witness ==
    /\ FailedAt(1, {"write"})
    /\ off[1] = 1
    /\ TmpOf(ver[1]) \in DOMAIN files
    /\ Len(DataAt(TmpOf(ver[1]))) = 1

(***************************************************************************)
(* C8. Off Windows, a run that installed and reached the handoff has the   *)
(* owner, group and other execute bits set on binaryPath, and every bit    *)
(* the file had before the fixup is still set; on Windows no mode changes. *)
(***************************************************************************)
C8_ExecuteBitsAdded ==
    /\ host.system # "Windows" =>
          \A p \in Procs :
              (pc[p] \in {"done", "handoff", "replaced"} /\ Has(log[p], "rename")) =>
                  /\ BinaryPath(p) \in DOMAIN files
                  /\ ModeAt(BinaryPath(p)) = ({256, 128, 32, 16, 4, 2} \ host.umask) \cup {64, 8, 1}
    /\ host.system = "Windows" =>
          /\ \A p \in Procs : ~Has(log[p], "chmod")
          /\ \A i \in DOMAIN inodes : inodes[i].mode = {256, 128, 32, 16, 4, 2} \ host.umask

\* under umask 0o077 a run installed an rw------- file and handed off to it as rwx--x--x
C8_Witness ==
    /\ host.system # "Windows"
    /\ host.umask = {32, 16, 8, 4, 2, 1}
    /\ pc[1] = "replaced"
    /\ Has(log[1], "chmod")
    /\ ran[1].mode = {256, 128, 64, 8, 1}

(***************************************************************************)
(* C9. Asset resolution maps each of the four supported keys to its one    *)
(* fixed non-empty asset name and fails with an unsupported-platform error *)
(* naming the key for every other pair; there is no default.               *)
(***************************************************************************)
C9_Expected(key) ==
    CASE key = <<"Linux", "x86_64">>  -> <<"CodeHydra-linux-x64", ".AppImage">>
      [] key = <<"Darwin", "x86_64">> -> <<"CodeHydra-darwin-x64", ".zip">>
      [] key = <<"Darwin", "arm64">>  -> <<"CodeHydra-darwin-arm64", ".zip">>
      [] key = <<"Windows", "AMD64">> -> <<"CodeHydra-win-portable-x64", ".zip">>
      [] OTHER -> <<>>
C9_AssetResolution ==
    LET key == <<host.system, host.machine>>
        r == get_asset_name(host)
    IN  /\ key \in SupportedKeys => (r.ok /\ r.val = C9_Expected(key) /\ r.val # <<>>)
        /\ key \notin SupportedKeys =>
               (~r.ok /\ r.val = <<"Unsupported platform: ", host.system, "-", host.machine>>)
        /\ \A p \in Procs :
              /\ url[p] # <<>> => (key \in SupportedKeys /\ SubSeq(url[p], Len(url[p]) - 1, Len(url[p])) = C9_Expected(key))
              /\ (pc[p] = "failed" /\ host.system \in {"Linux", "Darwin", "Windows"}
                  /\ key \notin SupportedKeys) =>
                     err[p] = <<"Unsupported platform: ", host.system, "-", host.machine>>

\* a launcher on Windows/x86_64 failed with the error naming that key
C9_Witness ==
    /\ pc[1] = "failed"
    /\ err[1] = <<"Unsupported platform: ", "Windows", "-", "x86_64">>

(***************************************************************************)
(* C10. On every supported key the binary path is a strict descendant of   *)
(* cacheDir: cacheDir/CodeHydra-win-portable-x64/CodeHydra.exe on Windows, *)
(* cacheDir/<asset name without .zip>/CodeHydra.app/Contents/MacOS/        *)
(* CodeHydra on macOS, and cacheDir/assetName on Linux, the path the       *)
(* download is renamed to.                                                 *)
(***************************************************************************)
C10_Expected(c, a) ==
    CASE host.system = "Windows" ->
             c \o << <<"CodeHydra-win-portable-x64">>, <<"CodeHydra", ".exe">> >>
      [] host.system = "Darwin" ->
             c \o << Front(a), <<"CodeHydra", ".app">>, <<"Contents">>, <<"MacOS">>,
                     <<"CodeHydra">> >>
      [] OTHER -> Append(c, a)
C10_BinaryPathUnderCacheDir ==
    Supported =>
        /\ \A v \in Versions :
              LET c == get_cache_dir(host, v).val
                  a == get_asset_name(host).val
                  b == get_binary_path(host, c, a)
              IN  /\ IsStrictPrefix(c, b)
                  /\ b = C10_Expected(c, a)
                  /\ host.system = "Linux" => b = DestOf(v)
        /\ \A p \in Procs :
              /\ pc[p] \in {"replaced", "waiting"} =>
                     (ran[p].path = C10_Expected(CacheDir(p), AssetName)
                      /\ IsStrictPrefix(CacheDir(p), ran[p].path))
              /\ (host.system = "Linux" /\ pc[p] = "chmod") =>
                     (C10_Expected(CacheDir(p), AssetName) \in DOMAIN files
                      /\ DataAt(C10_Expected(CacheDir(p), AssetName)) = Body(ver[p]))

\* version 2.0.0 on Darwin/arm64 was installed and handed off to
\* .../releases/2.0.0/CodeHydra-darwin-arm64/CodeHydra.app/Contents/MacOS/CodeHydra
C10_Witness ==
    /\ host.system = "Darwin" /\ host.machine = "arm64"
    /\ pc[1] = "replaced"
    /\ ver[1] = "2.0.0"
    /\ Has(log[1], "extract")
    /\ SubSeq(ran[1].path, Len(ran[1].path) - 6, Len(ran[1].path))
           = << <<"releases">>, <<"2.0.0">>, <<"CodeHydra-darwin-arm64">>, <<"CodeHydra", ".app">>,
                <<"Contents">>, <<"MacOS">>, <<"CodeHydra">> >>

(***************************************************************************)
(* C11. Versions are kept apart.  A step of a run for version v creates,   *)
(* changes or removes only files whose path has the component v and no     *)
(* other version (the directories it creates are the cache directory of v, *)
(* its ancestors and directories below it), so every file of another       *)
(* version stays as it was.  A run for v that finds nothing of v in the    *)
(* file system installs, whatever other versions are installed, and its    *)
(* request goes to the release URL of v; the path it hands off to is a     *)
(* path of v.                                                              *)
(***************************************************************************)
C11_Touched(path) ==
    \/ (path \in DOMAIN files) # (path \in DOMAIN files')
    \/ /\ path \in DOMAIN files /\ path \in DOMAIN files'
       /\ inodes[files[path]] # inodes'[files'[path]]
C11_Others(v) == Versions \ {v}
C11_Url(v) ==
    <<"https://github.com", "stefanhoelzl", "codehydra", "releases", "download", "v", v>>
    \o C9_Expected(<<host.system, host.machine>>)
C11_RunStep ==
    pc[1] \in Running =>
        /\ \A path \in DOMAIN files \cup DOMAIN files' :
              C11_Touched(path) =>
                  /\ Has(path, <<ver[1]>>)
                  /\ \A w \in C11_Others(ver[1]) : ~Has(path, <<w>>)
        /\ \A d \in dirs' \ dirs : \A w \in C11_Others(ver[1]) : ~Has(d, <<w>>)
        /\ \A w \in C11_Others(ver[1]) :
              \A path \in DOMAIN files : Has(path, <<w>>) =>
                  path \in DOMAIN files' /\ inodes'[files'[path]] = inodes[files[path]]
        /\ ( /\ pc[1] = "check" /\ pc'[1] # "check"
             /\ \A path \in DOMAIN files \cup dirs : ~Has(path, <<ver[1]>>) )
              => pc'[1] = "mkdir"
        /\ pc'[1] \in {"replaced", "waiting"} => Has(ran'[1].path, <<ver[1]>>)
C11_VersionsApart ==
    /\ [](\A p \in Procs : url[p] # <<>> => url[p] = C11_Url(ver[p]))
    /\ [][C11_RunStep]_vars

\* with 1.2.3 installed, a first run for 2.0.0 downloaded from the 2.0.0 release, installed
\* and handed off, and the binary of 1.2.3 is still there, complete
C11_Witness ==
    /\ launches >= 2
    /\ ver[1] = "2.0.0"
    /\ pc[1] \in {"replaced", "waiting"}
    /\ Has(log[1], "request")
    /\ url[1] = C11_Url("2.0.0")
    /\ LET b == get_binary_path(host, get_cache_dir(host, "1.2.3").val, get_asset_name(host).val)
       IN  /\ b \in DOMAIN files
           /\ DataAt(b) # <<>>
           /\ DataAt(b)[1][1] = "1.2.3"

(***************************************************************************)
(* C12. After a successful install (the run printed Done): if the asset    *)
(* name ends in .zip, every entry of the archive is present under cacheDir *)
(* at its relative path with the entry's content and cacheDir/assetName no *)
(* longer exists; otherwise the run extracted and deleted nothing and the  *)
(* downloaded file is at cacheDir/assetName with the response body as its  *)
(* content.                                                                *)
(***************************************************************************)
C12_InstallLayout ==
    \A p \in Procs :
        Has(log[p], "print:Done") =>
            LET v == ver[p]
                dir == get_cache_dir(host, v).val
            IN  IF EndsWith(get_asset_name(host).val, ".zip")
                THEN /\ \A i \in 1..Len(ZipMembers(host)) :
                           /\ (dir \o ZipMembers(host)[i]) \in DOMAIN files
                           /\ DataAt(dir \o ZipMembers(host)[i]) = MemberData(v, i)
                     /\ DestOf(v) \notin DOMAIN files
                     /\ Has(log[p], "unlink")
                ELSE /\ ~Has(log[p], "print:Extracting")
                     /\ ~Has(log[p], "extract")
                     /\ ~Has(log[p], "unlink")
                     /\ DestOf(v) \in DOMAIN files
                     /\ DataAt(DestOf(v)) = Body(v)

\* a Windows install finished: both archive entries are extracted and the zip is gone
C12_Witness ==
    /\ host.system = "Windows"
    /\ pc[1] = "handoff"
    /\ Has(log[1], "print:Done")
    /\ Cardinality({q \in DOMAIN files : IsStrictPrefix(CacheDir(1), q)}) = 2
    /\ DestOf(ver[1]) \notin DOMAIN files

(***************************************************************************)
(* C13. On Windows the handoff starts binaryPath as a child with exactly   *)
(* the forwarded arguments; while the child runs the launcher does nothing *)
(* (no file, directory, output or request changes), and its next and last  *)
(* step is to exit with exactly the child's return code.  On every other   *)
(* platform the handoff replaces the process by binaryPath with the same   *)
(* forwarded arguments, and the launcher takes no step of that run         *)
(* afterwards.                                                             *)
(***************************************************************************)
C13_HandedOff(p) ==
    pc[p] \in {"waiting", "exited", "replaced"} =>
        /\ ran[p].path = C10_Expected(get_cache_dir(host, ver[p]).val, get_asset_name(host).val)
        /\ ran[p].args = argv[p]
        /\ (host.system = "Windows") = (pc[p] \in {"waiting", "exited"})
        /\ pc[p] = "exited" => (code[p] = ran[p].returncode /\ code[p] \in ExitCodes)
        /\ pc[p] # "exited" => ran[p].returncode = -1
C13_AfterHandoff(p) ==
    /\ (pc[p] = "waiting" /\ pc'[p] # "waiting") =>
           /\ pc'[p] = "exited"
           /\ code'[p] = ran'[p].returncode
           /\ UNCHANGED <<dirs, files, inodes, log, url, ver, argv>>
    /\ (pc[p] \in {"replaced", "exited"} /\ pc'[p] # pc[p]) =>
           /\ pc'[p] = "resolve"
           /\ log'[p] = <<>>
           /\ UNCHANGED <<dirs, files, inodes>>
    /\ pc[p] \in {"waiting", "replaced", "exited"} /\ pc'[p] = pc[p] =>
           UNCHANGED <<dirs, files, inodes, log, url, ran, code>>
C13_Handoff ==
    /\ [](\A p \in Procs : C13_HandedOff(p))
    /\ [][\A p \in {1} : C13_AfterHandoff(p)]_vars

\* on Windows the child was started with --version, ended with code 3, and so did the
\* launcher
C13_Witness ==
    /\ host.system = "Windows"
    /\ pc[1] = "exited"
    /\ ran[1].args = <<"--version">>
    /\ ran[1].returncode = 3
    /\ code[1] = 3

(***************************************************************************)
(* C14. The launcher never cleans the cache.  No step removes a directory. *)
(* A step removes a path only in two ways: the temporary file, by renaming *)
(* it to cacheDir/assetName, and the downloaded archive, by the unlink     *)
(* that follows the extraction of all its entries; the installed binary    *)
(* and the extracted files are never removed.  Directories are created     *)
(* only on the install path (after Downloading was printed), the cache     *)
(* directory itself only by the mkdir step: never while resolving paths,   *)
(* at the existence check or on the fast path.                             *)
(***************************************************************************)
C14_Removed(path) ==
    LET v == ver[1]
        dir == get_cache_dir(host, v).val
        asset == get_asset_name(host).val
    IN  \/ /\ path = TmpOf(v)
           /\ log'[1] = Append(log[1], "rename")
           /\ DestOf(v) \in DOMAIN files' /\ files'[DestOf(v)] = files[path]
        \/ /\ path = DestOf(v)
           /\ EndsWith(asset, ".zip")
           /\ log'[1] = Append(log[1], "unlink")
           /\ Cardinality({i \in 1..Len(log[1]) : log[1][i] = "extract"}) = Len(ZipMembers(host))
           /\ path # C10_Expected(dir, asset)
           /\ \A i \in 1..Len(ZipMembers(host)) : path # dir \o ZipMembers(host)[i]
C14_Step ==
    /\ dirs \subseteq dirs'
    /\ \A path \in DOMAIN files \ DOMAIN files' : C14_Removed(path)
    /\ dirs' # dirs =>
           /\ pc[1] \in {"mkdir", "member_open"}
           /\ log[1] # <<>> /\ log[1][1] = "print:Downloading"
    /\ \A v \in Versions :
           get_cache_dir(host, v).val \in dirs' \ dirs => (pc[1] = "mkdir" /\ ver[1] = v)
C14_NoCleanup == [][C14_Step]_vars

\* on Darwin the archive was extracted and then deleted: the extracted files and the
\* cache directory are there, the archive and the temporary file are not
C14_Witness ==
    /\ host.system = "Darwin"
    /\ pc[1] = "chmod"
    /\ log[1][Len(log[1])] = "unlink"
    /\ CacheDir(1) \in dirs
    /\ \A i \in 1..Len(ZipMembers(host)) : (CacheDir(1) \o ZipMembers(host)[i]) \in DOMAIN files
    /\ DestOf(ver[1]) \notin DOMAIN files
    /\ TmpOf(ver[1]) \notin DOMAIN files

(***************************************************************************)
(* C15. Within one installing run the steps happen in one fixed order:     *)
(* creation of the cache directory, the request and the writes to the      *)
(* temporary file, the rename onto cacheDir/assetName, for a zip asset the *)
(* extraction and then the deletion of the archive, on non-Windows the     *)
(* setting of the execute bits, and last the handoff.  At every moment     *)
(* what the run has done so far is an initial part of that sequence, and   *)
(* the temporary file is closed before it is renamed.                      *)
(***************************************************************************)
C15_StepOrder ==
    \A p \in Procs :
        /\ (log[p] # <<>> /\ log[p][1] = "print:Downloading")
              => IsPrefix(log[p], FullInstallLog \o <<"handoff">>)
        /\ (log[p] # <<>> /\ log[p][1] # "print:Downloading") => log[p] = <<"handoff">>
        /\ pc[p] = "rename" => (fd[p] = 0 /\ off[p] = BodyChunks)
        /\ pc[p] \in {"unlink", "chmod", "done"} => (fd[p] = 0 /\ Has(log[p], "rename"))

\* a Darwin run went through every step, from mkdir to chmod, and then handed off
C15_Witness ==
    /\ host.system = "Darwin"
    /\ pc[1] = "replaced"
    /\ Len(log[1]) = BodyChunks + Len(ZipMembers(host)) + 10
    /\ log[1] = FullInstallLog \o <<"handoff">>

(***************************************************************************)
(* C16. A temporary file left by an earlier failed download does not       *)
(* contaminate a later download of a launcher run after it.  While the     *)
(* later run downloads, the temporary file holds exactly the chunks this   *)
(* run has written so far, whatever it held before; and when its download  *)
(* completes (the rename has happened) cacheDir/assetName holds exactly    *)
(* the full response body and no temporary file remains.                   *)
(***************************************************************************)
C16_StaleTmpHarmless ==
    \A p \in Procs :
        /\ pc[p] \in {"read", "write"} =>
               /\ TmpOf(ver[p]) \in DOMAIN files
               /\ files[TmpOf(ver[p])] = fd[p]
               /\ DataAt(TmpOf(ver[p])) = SubSeq(Body(ver[p]), 1, off[p])
        /\ (log[p] # <<>> /\ log[p][Len(log[p])] = "rename") =>
               /\ DestOf(ver[p]) \in DOMAIN files
               /\ DataAt(DestOf(ver[p])) = Body(ver[p])
               /\ TmpOf(ver[p]) \notin DOMAIN files

\* the download of launcher 2 broke off after it had written to the temporary file;
\* launcher 1, run after it, has completed its download
C16_Witness ==
    /\ FailedAt(2, {"read", "write"})
    /\ off[2] >= 1
    /\ ~Has(log[2], "rename")
    /\ pc[1] \in {"zip_open", "chmod", "done"}
    /\ log[1][Len(log[1])] = "rename"
    /\ DataAt(DestOf(ver[1])) = Body(ver[1])
    /\ TmpOf(ver[1]) \notin DOMAIN files

(***************************************************************************)
(* C17. Whenever a launcher hands off, the installation of its version is  *)
(* complete at that moment: the download was fully written and renamed,    *)
(* every entry of a zip asset is extracted with its whole content, and on  *)
(* non-Windows the execute bits are set on the binary.                     *)
(***************************************************************************)
C17_Complete(v) ==
    LET dir == get_cache_dir(host, v).val
        asset == get_asset_name(host).val
        bin == C10_Expected(dir, asset)
    IN  /\ IF EndsWith(asset, ".zip")
           THEN \A i \in 1..Len(ZipMembers(host)) :
                    /\ (dir \o ZipMembers(host)[i]) \in DOMAIN files
                    /\ DataAt(dir \o ZipMembers(host)[i]) = MemberData(v, i)
           ELSE DestOf(v) \in DOMAIN files /\ DataAt(DestOf(v)) = Body(v)
        /\ bin \in DOMAIN files
        /\ host.system # "Windows" => {S_IXUSR, S_IXGRP, S_IXOTH} \subseteq ModeAt(bin)
C17_HandoffOnlyWhenInstalled ==
    [][\A p \in Procs :
          (pc[p] = "handoff" /\ pc'[p] \in {"replaced", "waiting"}) => C17_Complete(ver[p])]_vars

(***************************************************************************)
(* C18. When launchers of one version that is not yet cached run           *)
(* concurrently on a supported platform and no step suffers a fault        *)
(* (network, disk, archive), no launcher fails: none is made to fail by    *)
(* what the other does.                                                    *)
(***************************************************************************)
C18_NoFailureWithoutFault ==
    (Supported /\ ~faulty) => \A p \in Procs : pc[p] # "failed"

(***************************************************************************)
(* C19. A launcher run on a supported platform, with a finite response     *)
(* body and no fault, ends its install phase and reaches the handoff.  The *)
(* chunk loop writes every chunk of the body exactly once and in order and *)
(* ends at the first empty read; no step of a run is repeated or retried   *)
(* (only the per-chunk write and the per-entry extraction occur more than  *)
(* once, once per chunk and once per entry).                               *)
(***************************************************************************)
C19_Count(s, x) == Cardinality({i \in 1..Len(s) : s[i] = x})
C19_LoopOnce(p) ==
    /\ pc[p] \in {"read", "write"} =>
           /\ off[p] <= BodyChunks
           /\ inodes[fd[p]].data = SubSeq(Body(ver[p]), 1, off[p])
           /\ C19_Count(log[p], "write") = off[p]
           /\ pc[p] = "write" => off[p] < BodyChunks
    /\ pc[p] = "rename" =>
           /\ C19_Count(log[p], "write") = BodyChunks
           /\ DataAt(TmpOf(ver[p])) = Body(ver[p])
    /\ C19_Count(log[p], "write") <= BodyChunks
    /\ C19_Count(log[p], "extract") <= Len(ZipMembers(host))
    /\ \A i, j \in 1..Len(log[p]) :
           (i < j /\ log[p][i] = log[p][j]) => log[p][i] \in {"write", "extract"}
C19_RunTerminates ==
    /\ [](\A p \in Procs : C19_LoopOnce(p))
    /\ \A p \in {1} :
           (pc[p] = "resolve" /\ Supported /\ ~faulty)
               ~> (faulty \/ pc[p] \in {"replaced", "waiting"})

\* a first run, with no fault, wrote the body chunk by chunk, installed and handed off
C19_Witness ==
    /\ ~faulty
    /\ launches = 1
    /\ pc[1] \in {"replaced", "waiting"}
    /\ C19_Count(log[1], "write") = BodyChunks
    /\ log[1][Len(log[1])] = "handoff"

====
